---- MODULE Spec2Model ----
(***************************************************************************)
(* A model of the Chip-8 core of Pagliacii/chip-8-rs: the bounds-checked   *)
(* Memory (src/src/memory.rs) and the Chip8 register file with its opcode  *)
(* dispatch and handlers (src/src/cpu.rs).                                 *)
(*                                                                         *)
(* The source names the same things in two ways (Memory::address is called *)
(* as memory.access, the field i_register is used as i_registers); the     *)
(* model reads each pair as one thing.  A panic ends the run: no action is *)
(* enabled once `result` holds a panic.                                    *)
(***************************************************************************)
EXTENDS Integers, Sequences, FiniteSets, TLC

VARIABLES
    v_registers,      \* [u8; 16], V0..VF
    i_register,       \* u16
    delay_timer,      \* u8
    sound_timer,      \* u8
    program_counter,  \* u16
    stack_pointer,    \* u8
    stack,            \* [u16; 16]
    data,             \* Memory.data, [u8; 4096]
    call,             \* the operation performed last: [op, a, b]
    result,           \* what that operation returned or how it failed: [kind, val]
    frames,           \* history: <<pc, sp, slot>> of each call not yet returned from
    steps             \* number of operations performed so far

vars == <<v_registers, i_register, delay_timer, sound_timer, program_counter,
          stack_pointer, stack, data, call, result, frames, steps>>

cpu_vars == <<v_registers, i_register, delay_timer, sound_timer, program_counter,
              stack_pointer, stack>>

-----------------------------------------------------------------------------
(* Bounds of the model *)

MaxMemSteps == 4

MaxSteps == 3

MaxOpSteps == 3

MaxCallSteps == 34

MaxTimerSteps == 4

MaxDrawSteps == 5

-----------------------------------------------------------------------------
(* Memory: src/src/memory.rs *)

MemSize == 4096

ProgramStart == 512      \* 0x200

WindowEnd == 4096        \* 0x1000, the upper limit both guards compare against

\* The 16 glyphs of 5 bytes seeded by Memory::new, digit by digit.
Font ==
    << <<240, 144, 144, 144, 240>>,   \* "0"
       << 32,  96,  32,  32, 112>>,   \* "1"
       <<240,  16, 240, 128, 240>>,   \* "2"
       <<240,  16, 240,  16, 240>>,   \* "3"
       <<144, 144, 240,  16,  16>>,   \* "4"
       <<240, 128, 240,  16, 240>>,   \* "5"
       <<240, 128, 240, 144, 240>>,   \* "6"
       <<240,  16,  32,  64,  64>>,   \* "7"
       <<240, 144, 240, 144, 240>>,   \* "8"
       <<240, 144, 240,  16, 240>>,   \* "9"
       <<240, 144, 240, 144, 144>>,   \* "A"
       <<224, 144, 224, 144, 224>>,   \* "B"
       <<240, 128, 128, 128, 240>>,   \* "C"
       <<224, 144, 144, 144, 224>>,   \* "D"
       <<240, 128, 240, 128, 240>>,   \* "E"
       <<240, 128, 240, 128, 128>> >> \* "F"

\* Memory::new: zeroed array, glyph d at data[5d .. 5d+5).
MemoryNew ==
    [a \in 0..(MemSize - 1) |->
        IF a < 80 THEN Font[(a \div 5) + 1][(a % 5) + 1] ELSE 0]

\* The guard without its lower limit.
Guard_no_floor(addr) == addr <= WindowEnd

\* The guard shared by Memory::address and Memory::assign:
\* addr >= 0x200 && addr <= 0x1000.
Guard(addr) == addr >= ProgramStart /\ addr <= WindowEnd

\* Indexing data[addr]: Rust's bounds check panics for addr >= 4096.
InArray(addr) == addr >= 0 /\ addr < MemSize

Res(kind, val) == [kind |-> kind, val |-> val]

Panicked ==
    result.kind \in {"IndexOutOfBounds", "UnknownOpcode", "InvalidOpcode",
                     "InvalidAddress", "Overflow"}

\* Memory::address(addr) as a value: Some(&data[addr]), None, or the panic
\* of the index expression.
address(addr) ==
    IF Guard(addr)
    THEN IF InArray(addr) THEN Res("Some", data[addr])
                          ELSE Res("IndexOutOfBounds", addr)
    ELSE Res("NoneOpt", addr)

\* assign with the lower limit of the guard one too high.
assign_above_start(m, addr, value) ==
    IF addr > ProgramStart /\ addr <= WindowEnd
    THEN IF InArray(addr)
         THEN [mem |-> [m EXCEPT ![addr] = value], res |-> Res("Ok", 0)]
         ELSE [mem |-> m, res |-> Res("IndexOutOfBounds", addr)]
    ELSE [mem |-> m, res |-> Res("Err", addr)]

\* Memory::assign(addr, value) on the array m: the array afterwards and the
\* outcome (Ok(()), Err(String), or the panic of the index expression).
assign(m, addr, value) ==
    IF Guard(addr)
    THEN IF InArray(addr)
         THEN [mem |-> [m EXCEPT ![addr] = value], res |-> Res("Ok", 0)]
         ELSE [mem |-> m, res |-> Res("IndexOutOfBounds", addr)]
    ELSE [mem |-> m, res |-> Res("Err", addr)]

Call(op, a, b) == [op |-> op, a |-> a, b |-> b]

-----------------------------------------------------------------------------
(* Chip8::new: src/src/cpu.rs *)

Chip8New ==
    /\ v_registers = [r \in 0..15 |-> 0]
    /\ i_register = 0
    /\ delay_timer = 0
    /\ sound_timer = 0
    /\ program_counter = 0
    /\ stack_pointer = 0
    /\ stack = [s \in 0..15 |-> 0]
    /\ data = MemoryNew
    /\ call = Call("new", 0, 0)
    /\ result = Res("Ok", 0)
    /\ frames = <<>>
    /\ steps = 0

-----------------------------------------------------------------------------
(* Integer operators of the source, on naturals *)

RECURSIVE BitAnd(_, _)
BitAnd(a, b) ==
    IF a = 0 \/ b = 0 THEN 0
    ELSE (a % 2) * (b % 2) + 2 * BitAnd(a \div 2, b \div 2)

RECURSIVE BitOr(_, _)
BitOr(a, b) ==
    IF a = 0 THEN b
    ELSE IF b = 0 THEN a
    ELSE (IF a % 2 = 1 \/ b % 2 = 1 THEN 1 ELSE 0) + 2 * BitOr(a \div 2, b \div 2)

RECURSIVE BitXor(_, _)
BitXor(a, b) ==
    IF a = 0 THEN b
    ELSE IF b = 0 THEN a
    ELSE ((a + b) % 2) + 2 * BitXor(a \div 2, b \div 2)

RECURSIVE Pow2(_)
Pow2(n) == IF n = 0 THEN 1 ELSE 2 * Pow2(n - 1)

ShiftRight(a, n) == a \div Pow2(n)

\* u8::wrapping_add and u8::wrapping_sub
wrapping_add(a, b) == (a + b) % 256
wrapping_sub(a, b) == (a - b + 256) % 256

Ok == Res("Ok", 0)

-----------------------------------------------------------------------------
(* The operand fields as the source computes them.  In Rust `>>` binds     *)
(* tighter than `&`, so `opcode & 0x0F00 >> 8` is `opcode & (0x0F00 >> 8)`. *)

field_x(opcode) == BitAnd(opcode, ShiftRight(3840, 8)) % 256    \* opcode & 0x0F00 >> 8, as u8
field_y(opcode) == BitAnd(opcode, ShiftRight(240, 4)) % 256     \* opcode & 0x00F0 >> 4, as u8
field_byte(opcode) == BitAnd(opcode, 255)                       \* opcode & 0x00FF
field_nibble(opcode) == BitAnd(opcode, 15)                      \* opcode & 0x000F
field_addr(opcode) == BitAnd(opcode, 4095)                      \* opcode & 0x0FFF

-----------------------------------------------------------------------------
(* The handlers of Chip8.  Each is an action on the machine state and on   *)
(* `result`; the caller records `call` and `steps`.                        *)

\* A handler that returns without touching the machine (an empty body).
no_effect ==
    /\ result' = Ok
    /\ UNCHANGED <<cpu_vars, data>>

\* 1nnn - JP addr
jump_to(addr) ==
    /\ program_counter' = addr
    /\ result' = Ok
    /\ UNCHANGED <<v_registers, i_register, delay_timer, sound_timer,
                   stack_pointer, stack, data>>

\* call_subroutine with the stack pointer wrapping at 15 instead of 16.
call_subroutine_mod15(addr) ==
    LET sp == (stack_pointer + 1) % 15 IN
    /\ stack_pointer' = sp
    /\ stack' = [stack EXCEPT ![sp] = program_counter]
    /\ program_counter' = addr
    /\ result' = Ok
    /\ UNCHANGED <<v_registers, i_register, delay_timer, sound_timer, data>>

\* 2nnn - CALL addr
call_subroutine(addr) ==
    LET sp == (stack_pointer + 1) % 16 IN
    /\ stack_pointer' = sp
    /\ stack' = [stack EXCEPT ![sp] = program_counter]
    /\ program_counter' = addr
    /\ result' = Ok
    /\ UNCHANGED <<v_registers, i_register, delay_timer, sound_timer, data>>

\* The skip adding 1 instead of 2.
skip_outcomes_by_one ==
    {[pc |-> (program_counter + 1) % 65536, res |-> Ok]}

\* program_counter += 2 on a u16: past 0xFFFF a build with overflow checks
\* panics and a build without them wraps.
skip_outcomes ==
    IF program_counter + 2 <= 65535
    THEN {[pc |-> program_counter + 2, res |-> Ok]}
    ELSE {[pc |-> (program_counter + 2) % 65536, res |-> Ok],
          [pc |-> program_counter, res |-> Res("Overflow", program_counter)]}

\* The body shared by the four skip handlers: if cond { program_counter += 2 }.
skip_when(cond) ==
    /\ IF cond
       THEN \E o \in skip_outcomes :
               /\ program_counter' = o.pc
               /\ result' = o.res
       ELSE /\ program_counter' = program_counter
            /\ result' = Ok
    /\ UNCHANGED <<v_registers, i_register, delay_timer, sound_timer,
                   stack_pointer, stack, data>>

\* 3xkk - SE Vx, byte
skip_if_equal(x, byte) == skip_when(v_registers[x] = byte)

\* 4xkk - SNE Vx, byte
skip_if_not_equal(x, byte) == skip_when(v_registers[x] # byte)

\* 5xy0 - SE Vx, Vy
skip_if_registers_equal(x, y) == skip_when(v_registers[x] = v_registers[y])

\* 9xy0 - SNE Vx, Vy
skip_if_registers_not_equal(x, y) == skip_when(v_registers[x] # v_registers[y])

\* A handler that only rewrites the general registers.
set_registers(v) ==
    /\ v_registers' = v
    /\ result' = Ok
    /\ UNCHANGED <<i_register, delay_timer, sound_timer, program_counter,
                   stack_pointer, stack, data>>

\* 6xkk - LD Vx, byte
load_to_register(x, byte) == set_registers([v_registers EXCEPT ![x] = byte])

\* 7xkk - ADD Vx, byte
add_to_register(x, byte) ==
    set_registers([v_registers EXCEPT ![x] = wrapping_add(v_registers[x], byte)])

\* 8xy0 - LD Vx, Vy
load_from_to(x, y) == set_registers([v_registers EXCEPT ![x] = v_registers[y]])

\* 8xy1 - OR Vx, Vy
or(x, y) ==
    set_registers([v_registers EXCEPT ![x] = BitOr(v_registers[x], v_registers[y])])

\* 8xy2 - AND Vx, Vy
and(x, y) ==
    set_registers([v_registers EXCEPT ![x] = BitAnd(v_registers[x], v_registers[y])])

\* 8xy3 - XOR Vx, Vy
xor(x, y) ==
    set_registers([v_registers EXCEPT ![x] = BitXor(v_registers[x], v_registers[y])])

\* 8xy4 - ADD Vx, Vy: VF is assigned first, then Vx from the registers as
\* they are after that assignment.
add(x, y) ==
    LET flag == IF v_registers[x] > 255 - v_registers[y] THEN 1 ELSE 0
        v1 == [v_registers EXCEPT ![15] = flag]
    IN  set_registers([v1 EXCEPT ![x] = wrapping_add(v1[x], v1[y])])

\* 8xy5 - SUB Vx, Vy
sub(x, y) ==
    LET flag == IF v_registers[x] > v_registers[y] THEN 1 ELSE 0
        v1 == [v_registers EXCEPT ![15] = flag]
    IN  set_registers([v1 EXCEPT ![x] = wrapping_sub(v1[x], v1[y])])

\* 8xy6 - SHR Vx {, Vy}
shr(x, y) ==
    LET v1 == [v_registers EXCEPT ![15] = BitAnd(v_registers[x], 1)]
    IN  set_registers([v1 EXCEPT ![x] = ShiftRight(v1[x], 1)])

\* 8xy7 - SUBN Vx, Vy
subn(x, y) ==
    LET flag == IF v_registers[y] > v_registers[x] THEN 1 ELSE 0
        v1 == [v_registers EXCEPT ![15] = flag]
    IN  set_registers([v1 EXCEPT ![x] = wrapping_sub(v1[y], v1[x])])

\* 8xyE - SHL Vx {, Vy}
shl(x, y) ==
    LET v1 == [v_registers EXCEPT ![15] = ShiftRight(BitAnd(v_registers[x], 128), 7)]
    IN  set_registers([v1 EXCEPT ![x] = (v1[x] * 2) % 256])

\* A panic: the machine is left as it is.
panic(kind, val) ==
    /\ result' = Res(kind, val)
    /\ UNCHANGED <<cpu_vars, data>>

\* logitcal_op with the default arm falling into add instead of panicking.
logitcal_op_no_default(opcode) ==
    LET x == field_x(opcode)
        y == field_y(opcode)
        c == BitAnd(opcode, 15)
    IN  CASE c = 0 -> load_from_to(x, y)
          [] c = 1 -> or(x, y)
          [] c = 2 -> and(x, y)
          [] c = 3 -> xor(x, y)
          [] c = 5 -> sub(x, y)
          [] c = 6 -> shr(x, y)
          [] c = 7 -> subn(x, y)
          [] c = 14 -> shl(x, y)
          [] OTHER -> add(x, y)

\* Logical operations: the match on opcode & 0x000F.
logitcal_op(opcode) ==
    LET x == field_x(opcode)
        y == field_y(opcode)
        c == BitAnd(opcode, 15)
    IN  CASE c = 0 -> load_from_to(x, y)
          [] c = 1 -> or(x, y)
          [] c = 2 -> and(x, y)
          [] c = 3 -> xor(x, y)
          [] c = 4 -> add(x, y)
          [] c = 5 -> sub(x, y)
          [] c = 6 -> shr(x, y)
          [] c = 7 -> subn(x, y)
          [] c = 14 -> shl(x, y)
          [] OTHER -> panic("UnknownOpcode", opcode)

\* Annn - LD I, addr
load_i(nnn) ==
    /\ i_register' = nnn
    /\ result' = Ok
    /\ UNCHANGED <<v_registers, delay_timer, sound_timer, program_counter,
                   stack_pointer, stack, data>>

\* Bnnn - JP V0, addr
jump_with_offset(nnn) == jump_to((nnn + v_registers[0]) % 65536)

\* The bytes rand::thread_rng().gen::<u8>() can return.
RandomBytes == 0..255

\* Cxkk - RND Vx, byte
random_and(x, kk) ==
    \E masked \in {BitAnd(byte, kk) : byte \in RandomBytes} :
        set_registers([v_registers EXCEPT ![x] = masked])

\* The first failure among the reads access(I + i), i = from .. n-1, of draw:
\* None panics with "Invalid memory address", the index expression panics
\* on its own; Ok when every read returns Some.
RECURSIVE draw_reads(_, _)
draw_reads(from, n) ==
    IF from >= n THEN Ok
    ELSE LET a == (i_register + from) % 65536
             r == address(a)
         IN  IF r.kind = "Some" THEN draw_reads(from + 1, n)
             ELSE IF r.kind = "NoneOpt" THEN Res("InvalidAddress", a)
             ELSE r

\* Dxyn - DRW Vx, Vy, nibble: the sprite is read into a local buffer and
\* nothing else is done.
draw(x, y, nibble) ==
    /\ result' = draw_reads(0, BitAnd(nibble, 15))
    /\ UNCHANGED <<cpu_vars, data>>

\* Skip next instruction if key pressed or not: the match on the low byte.
skip_with_key_status(opcode) ==
    LET low_byte == BitAnd(opcode, 255)
    IN  CASE low_byte = 158 -> no_effect
          [] low_byte = 161 -> no_effect
          [] OTHER -> panic("InvalidOpcode", opcode)

\* Fx07 - LD Vx, DT
load_delay_timer(x) == set_registers([v_registers EXCEPT ![x] = delay_timer])

\* Fx0A - LD Vx, K
wait_for_key_press(x) == no_effect

\* Fx15 - LD DT, Vx
set_delay_timer(x) ==
    /\ delay_timer' = v_registers[x]
    /\ result' = Ok
    /\ UNCHANGED <<v_registers, i_register, sound_timer, program_counter,
                   stack_pointer, stack, data>>

\* Fx18 - LD ST, Vx
set_sound_timer(x) ==
    /\ sound_timer' = v_registers[x]
    /\ result' = Ok
    /\ UNCHANGED <<v_registers, i_register, delay_timer, program_counter,
                   stack_pointer, stack, data>>

\* A handler that only writes memory; r is [mem, res] as assign gives it.
\* The Result of assign is dropped by every caller: Err leaves no trace,
\* only the panic of the index expression ends the handler.
set_memory(r) ==
    /\ data' = r.mem
    /\ result' = IF r.res.kind = "IndexOutOfBounds" THEN r.res ELSE Ok
    /\ UNCHANGED cpu_vars

\* Fx1E - ADD I, Vx: adds Vx to the byte at I when access(I) is Some.
add_to_i_register(x) ==
    LET r == address(i_register)
    IN  IF r.kind = "Some"
        THEN set_memory(assign(data, i_register, wrapping_add(r.val, v_registers[x])))
        ELSE IF r.kind = "NoneOpt" THEN no_effect
        ELSE panic(r.kind, r.val)

\* Fx29 - LD F, Vx
set_i_register(x) == no_effect

\* assign applied to each <<addr, value>> of writes in order, stopping at a
\* panic.
RECURSIVE assign_all(_, _)
assign_all(m, writes) ==
    IF writes = <<>> THEN [mem |-> m, res |-> Ok]
    ELSE LET r == assign(m, writes[1][1], writes[1][2])
         IN  IF r.res.kind = "IndexOutOfBounds" THEN r
             ELSE assign_all(r.mem, Tail(writes))

\* store_bcd with the tens digit not reduced modulo 10.
store_bcd_tens(x) ==
    set_memory(assign_all(data,
        << <<i_register, v_registers[x] \div 100>>,
           <<(i_register + 1) % 65536, v_registers[x] \div 10>>,
           <<(i_register + 2) % 65536, v_registers[x] % 10>> >>))

\* Fx33 - LD B, Vx
store_bcd(x) ==
    set_memory(assign_all(data,
        << <<i_register, v_registers[x] \div 100>>,
           <<(i_register + 1) % 65536, (v_registers[x] \div 10) % 10>>,
           <<(i_register + 2) % 65536, v_registers[x] % 10>> >>))

\* Fx55 - LD [I], Vx
store_registers(x) ==
    set_memory(assign_all(data,
        [i \in 1..(x + 1) |-> <<i_register + (i - 1), v_registers[i - 1]>>]))

\* The loop of load_registers from index i on, over the registers v:
\* Some stores the byte, None skips the register, a panic stops.
RECURSIVE load_all(_, _, _)
load_all(v, i, x) ==
    IF i > x THEN [regs |-> v, res |-> Ok]
    ELSE LET r == address(i_register + i)
         IN  IF r.kind = "Some" THEN load_all([v EXCEPT ![i] = r.val], i + 1, x)
             ELSE IF r.kind = "NoneOpt" THEN load_all(v, i + 1, x)
             ELSE [regs |-> v, res |-> r]

\* Fx65 - LD Vx, [I]
load_registers(x) ==
    LET r == load_all(v_registers, 0, x)
    IN  /\ v_registers' = r.regs
        /\ result' = r.res
        /\ UNCHANGED <<i_register, delay_timer, sound_timer, program_counter,
                       stack_pointer, stack, data>>

\* Fx** instructions: the match on the low byte.
fx_inst(opcode) ==
    LET x == field_x(opcode)
        low_byte == BitAnd(opcode, 255)
    IN  CASE low_byte = 7 -> load_delay_timer(x)
          [] low_byte = 10 -> wait_for_key_press(x)
          [] low_byte = 21 -> set_delay_timer(x)
          [] low_byte = 24 -> set_sound_timer(x)
          [] low_byte = 30 -> add_to_i_register(x)
          [] low_byte = 41 -> set_i_register(x)
          [] low_byte = 51 -> store_bcd(x)
          [] low_byte = 85 -> store_registers(x)
          [] low_byte = 101 -> load_registers(x)
          [] OTHER -> panic("InvalidOpcode", opcode)

\* Chip8::execute: the match on opcode & 0xF000.
dispatch(opcode) ==
    LET class == BitAnd(opcode, 61440)
        x == field_x(opcode)
        y == field_y(opcode)
        byte == field_byte(opcode) % 256
    IN  CASE class = 0 -> no_effect
          [] class = 4096 -> jump_to(field_addr(opcode))
          [] class = 8192 -> call_subroutine(field_addr(opcode))
          [] class = 12288 -> skip_if_equal(x, byte)
          [] class = 16384 -> skip_if_not_equal(x, byte)
          [] class = 20480 -> skip_if_registers_equal(x, y)
          [] class = 24576 -> load_to_register(x, byte)
          [] class = 28672 -> add_to_register(x, byte)
          [] class = 32768 -> logitcal_op(opcode)
          [] class = 36864 -> skip_if_registers_not_equal(x, y)
          [] class = 40960 -> load_i(field_addr(opcode))
          [] class = 45056 -> jump_with_offset(field_addr(opcode))
          [] class = 49152 -> random_and(x, byte)
          [] class = 53248 -> draw(x, y, field_nibble(opcode) % 256)
          [] class = 57344 -> skip_with_key_status(opcode)
          [] class = 61440 -> fx_inst(opcode)

\* The history of calls: 2nnn records the program counter and stack pointer
\* it found and the stack slot it indexed, 00EE (RET) forgets the newest
\* record.
frames_after(opcode) ==
    IF opcode \div 4096 = 2
    THEN Append(frames, <<program_counter, stack_pointer, stack_pointer'>>)
    ELSE IF opcode = 238 /\ frames # <<>>
    THEN SubSeq(frames, 1, Len(frames) - 1)
    ELSE frames

\* One call of Chip8::execute.
execute(opcode) ==
    /\ ~Panicked
    /\ dispatch(opcode)
    /\ call' = Call("execute", opcode, 0)
    /\ frames' = frames_after(opcode)

-----------------------------------------------------------------------------
(* The machine driven through execute, a few instructions deep.            *)

Opcodes ==
    { 224, 238, 291,                  \* 00E0, 00EE, 0123
      4864, 6827,                     \* 1300, 1AAB
      8960,                           \* 2300
      12288, 13573,                   \* 3000, 3505
      16384, 17669,                   \* 4000, 4505
      20512, 20757,                   \* 5020, 5115
      24581, 25343, 25240, 25500,     \* 6005, 62FF, 6298, 639C
      28931,                          \* 7103
      33056, 33057, 33058, 33059,     \* 8120 .. 8123
      33060, 33061, 33062, 33063,     \* 8124 .. 8127
      33070, 33064, 33071,            \* 812E, 8128, 812F
      37152, 37141,                   \* 9120, 9115
      41472, 45054, 40960, 41470,     \* A200, AFFE, A000, A1FE
      45824,                          \* B300
      49411,                          \* C103
      53539,                          \* D123
      57758, 57761, 57600,            \* E19E, E1A1, E100
      61703, 61706, 61717, 61720,     \* F107, F10A, F115, F118
      61726, 61737, 61747, 61781,     \* F11E, F129, F133, F155
      61797, 61951 }                  \* F165, F1FF

Step(opcode) ==
    /\ steps < MaxSteps
    /\ execute(opcode)
    /\ steps' = steps + 1

Init == Chip8New

Next == \E opcode \in Opcodes : Step(opcode)

Spec == Init /\ [][Next]_vars

-----------------------------------------------------------------------------
(* Calls and returns alone, deep enough to fill the stack and wrap it: a   *)
(* guest program that nests calls and then returns from them.              *)

CallOpcodes == {8960, 238}            \* 2300, 00EE

\* A call is issued only while no return has been issued, and a return only
\* while a call is waiting for it.
CallStep(opcode) ==
    /\ steps < MaxCallSteps
    /\ IF opcode = 238 THEN frames # <<>> ELSE call.a # 238
    /\ execute(opcode)
    /\ steps' = steps + 1

InitCall == Chip8New

NextCall == \E opcode \in CallOpcodes : CallStep(opcode)

SpecCall == InitCall /\ [][NextCall]_vars

-----------------------------------------------------------------------------
(* The handlers called one by one with chosen operands.                    *)

OpRegs == {0, 1, 15}

OpBytes == {1, 3, 5, 156, 255}

OpAddrs == {510, 512, 4093, 4094}

\* A handler called directly: h is the handler's action.
Called(bound, name, a, b, h) ==
    /\ ~Panicked
    /\ steps < bound
    /\ h
    /\ call' = Call(name, a, b)
    /\ steps' = steps + 1
    /\ UNCHANGED frames

OpLoad(x, byte) == Called(MaxOpSteps, "load_to_register", x, byte, load_to_register(x, byte))

OpLoadI(nnn) == Called(MaxOpSteps, "load_i", nnn, 0, load_i(nnn))

OpAdd(x, y) == Called(MaxOpSteps, "add", x, y, add(x, y))

OpSub(x, y) == Called(MaxOpSteps, "sub", x, y, sub(x, y))

OpStoreBcd(x) == Called(MaxOpSteps, "store_bcd", x, 0, store_bcd(x))

OpAddToI(x) == Called(MaxOpSteps, "add_to_i_register", x, 0, add_to_i_register(x))

InitOps == Chip8New

NextOps ==
    \/ \E x \in OpRegs, byte \in OpBytes : OpLoad(x, byte)
    \/ \E nnn \in OpAddrs : OpLoadI(nnn)
    \/ \E x \in OpRegs, y \in OpRegs : OpAdd(x, y)
    \/ \E x \in OpRegs, y \in OpRegs : OpSub(x, y)
    \/ \E x \in OpRegs : OpStoreBcd(x)
    \/ \E x \in OpRegs : OpAddToI(x)

SpecOps == InitOps /\ [][NextOps]_vars

-----------------------------------------------------------------------------
(* The timers: the two handlers that set them, and the 60Hz clock.         *)

TimerRegs == {0, 1}

TimerBytes == {2, 255}

\* One period of the 60Hz clock.  src/src/timers.rs documents the timers
\* and holds no code; nothing in the repository runs on the clock or writes
\* delay_timer or sound_timer except set_delay_timer and set_sound_timer.
timer_tick == no_effect

TmLoad(x, byte) ==
    Called(MaxTimerSteps, "load_to_register", x, byte, load_to_register(x, byte))

TmSetDelay(x) == Called(MaxTimerSteps, "set_delay_timer", x, 0, set_delay_timer(x))

TmSetSound(x) == Called(MaxTimerSteps, "set_sound_timer", x, 0, set_sound_timer(x))

Tick == Called(MaxTimerSteps, "tick", 0, 0, timer_tick)

InitTimer == Chip8New

NextTimer ==
    \/ \E x \in TimerRegs, byte \in TimerBytes : TmLoad(x, byte)
    \/ \E x \in TimerRegs : TmSetDelay(x)
    \/ \E x \in TimerRegs : TmSetSound(x)
    \/ Tick

SpecTimer == InitTimer /\ [][NextTimer]_vars

-----------------------------------------------------------------------------
(* A guest that stores a sprite with store_bcd and then draws it, once and *)
(* again.  The repository has no display: src/src/display.rs holds only    *)
(* documentation.                                                          *)

DrawRegs == {0, 1}

DrawBytes == {1, 156}

DrawAddrs == {512, 4093}

DrawLens == {1, 3}

\* The handlers that prepare the sprite run only before the first draw.
DrLoad(x, byte) ==
    /\ call.op # "draw"
    /\ Called(MaxDrawSteps, "load_to_register", x, byte, load_to_register(x, byte))

DrLoadI(nnn) ==
    /\ call.op # "draw"
    /\ Called(MaxDrawSteps, "load_i", nnn, 0, load_i(nnn))

DrStoreBcd(x) ==
    /\ call.op # "draw"
    /\ Called(MaxDrawSteps, "store_bcd", x, 0, store_bcd(x))

\* draw(x, y, nibble), the k-th of a run of identical draws (k is 1 or 2).
DrDraw(x, y, nibble) ==
    LET k == IF call.op = "draw" THEN call.b[3] + 1 ELSE 1
    IN  /\ k <= 2
        /\ call.op = "draw" => (call.a = x /\ call.b[1] = y /\ call.b[2] = nibble)
        /\ Called(MaxDrawSteps, "draw", x, <<y, nibble, k>>, draw(x, y, nibble))

InitDraw == Chip8New

NextDraw ==
    \/ \E x \in DrawRegs, byte \in DrawBytes : DrLoad(x, byte)
    \/ \E nnn \in DrawAddrs : DrLoadI(nnn)
    \/ \E x \in DrawRegs : DrStoreBcd(x)
    \/ \E x \in DrawRegs, y \in DrawRegs, nibble \in DrawLens : DrDraw(x, y, nibble)

SpecDraw == InitDraw /\ [][NextDraw]_vars

-----------------------------------------------------------------------------
(* The Memory unit driven directly: reads and writes at chosen addresses.  *)

\* Below, at and above each edge of the window, and inside the glyphs.
MemAddrs == {0, 7, 79, 80, 511, 512, 513, 4095, 4096, 4097}

MemBytes == {0, 1, 255}

MemAssign(addr, value) ==
    /\ ~Panicked
    /\ steps < MaxMemSteps
    /\ LET r == assign(data, addr, value) IN
          /\ data' = r.mem
          /\ result' = r.res
    /\ call' = Call("assign", addr, value)
    /\ steps' = steps + 1
    /\ UNCHANGED <<cpu_vars, frames>>

MemAddress(addr) ==
    /\ ~Panicked
    /\ steps < MaxMemSteps
    /\ result' = address(addr)
    /\ call' = Call("address", addr, 0)
    /\ steps' = steps + 1
    /\ UNCHANGED <<cpu_vars, data, frames>>

InitMem == Chip8New

NextMem ==
    \/ \E addr \in MemAddrs, value \in MemBytes : MemAssign(addr, value)
    \/ \E addr \in MemAddrs : MemAddress(addr)

SpecMem == InitMem /\ [][NextMem]_vars

\* The window [0x200, 0x1000) the specification gives to guest reads and writes.
InWindow(addr) == addr >= 512 /\ addr < 4096

\* C1: a write of b at an address a of [0x200, 0x1000) succeeds and stores b,
\* and a read at a performed immediately afterwards returns b.
C1_WriteThenRead ==
    [][ /\ (call'.op = "assign" /\ InWindow(call'.a))
              => (result' = Res("Ok", 0) /\ data'[call'.a] = call'.b)
        /\ (call.op = "assign" /\ InWindow(call.a)
              /\ call'.op = "address" /\ call'.a = call.a)
              => result' = Res("Some", call.b) ]_vars

\* A read at 0xFFF that returned the 255 written there just before.
C1_Witness ==
    /\ call = Call("address", 4095, 0)
    /\ result = Res("Some", 255)
    /\ steps = 2

\* C2: a write at an address outside [0x200, 0x1000) returns the OutOfBounds
\* error value (Err) and leaves every memory byte unchanged.
C2_WriteOutsideFails ==
    [][ (call'.op = "assign" /\ ~InWindow(call'.a))
          => (result'.kind = "Err" /\ data' = data) ]_vars

\* C3: a read at 5*d+k, inside the glyphs, succeeds and returns byte k of
\* the glyph of digit d.
C3_FontReadable ==
    (call.op = "address" /\ call.a < 80)
        => result = Res("Some", Font[(call.a \div 5) + 1][(call.a % 5) + 1])

\* An opcode no arm of the three matches names: class 8 with a low nibble
\* other than 0..7 and E, class E with a low byte other than 9E and A1,
\* class F with a low byte outside the nine Fx** forms.
Undefined(w) ==
    \/ w \div 4096 = 8 /\ (w % 16) \notin {0, 1, 2, 3, 4, 5, 6, 7, 14}
    \/ w \div 4096 = 14 /\ (w % 256) \notin {158, 161}
    \/ w \div 4096 = 15 /\ (w % 256) \notin {7, 10, 21, 24, 30, 41, 51, 85, 101}

\* C4: executing an opcode that matches no handler fails with an error that
\* carries the raw 16-bit value, and leaves every register, I, PC, SP, the
\* stack, both timers and all memory as they were.
C4_UnknownOpcode ==
    [][ (call'.op = "execute" /\ Undefined(call'.a))
          => /\ result'.kind \in {"UnknownOpcode", "InvalidOpcode"}
             /\ result'.val = call'.a
             /\ UNCHANGED <<cpu_vars, data>> ]_vars

\* 8128 rejected after two instructions that changed V5 and the program
\* counter.
C4_Witness ==
    /\ call = Call("execute", 33064, 0)
    /\ result = Res("UnknownOpcode", 33064)
    /\ v_registers[5] = 5
    /\ program_counter = 768

\* C5: with at most 16 calls open, a return sets the program counter to the
\* value it had before the matching call, and the return that closes the
\* first call leaves the stack pointer as it was before that call.
C5_CallReturn ==
    [][ (call'.op = "execute" /\ call'.a = 238
            /\ frames # <<>> /\ Len(frames) <= 16)
          => /\ program_counter' = frames[Len(frames)][1]
             /\ (Len(frames) = 1 => stack_pointer' = frames[1][2]) ]_vars

\* C6: a step from program counter p leaves p + 2 after an instruction that
\* is no jump, call, skip or return and after a skip not taken, p + 4 after
\* a skip taken, and the target after a jump or call.
C6_PcAdvance ==
    [][ (call'.op = "execute" /\ result'.kind = "Ok")
          => LET w == call'.a
                 class == w \div 4096
                 p == program_counter
                 vx == v_registers[(w \div 256) % 16]
                 vy == v_registers[(w \div 16) % 16]
                 kk == w % 256
                 nnn == w % 4096
                 skipped(cond) == program_counter' = IF cond THEN p + 4 ELSE p + 2
             IN  CASE class \in {1, 2} -> program_counter' = nnn
                   [] class = 11 -> program_counter' = nnn + v_registers[0]
                   [] class = 3 -> skipped(vx = kk)
                   [] class = 4 -> skipped(vx # kk)
                   [] class = 5 -> skipped(vx = vy)
                   [] class = 9 -> skipped(vx # vy)
                   [] class = 14 -> program_counter' \in {p + 2, p + 4}
                   [] w = 238 -> TRUE
                   [] OTHER -> program_counter' = p + 2 ]_vars

\* C7: after add(x, y) with a = Vx and b = Vy beforehand, VF is 1 if
\* a + b > 255 and 0 otherwise and, when x is not 15, Vx is (a + b) mod 256.
C7_AddCarry ==
    [][ call'.op = "add"
          => LET x == call'.a
                 y == call'.b
                 a == v_registers[x]
                 b == v_registers[y]
             IN  /\ v_registers'[15] = (IF a + b > 255 THEN 1 ELSE 0)
                 /\ (x # 15 => v_registers'[x] = (a + b) % 256) ]_vars

\* C8: after sub(x, y) with x not 15, a = Vx and b = Vy beforehand, Vx is
\* (a - b) mod 256 and VF is 1 if a > b and 0 otherwise.
C8_SubBorrow ==
    [][ (call'.op = "sub" /\ call'.a # 15)
          => LET x == call'.a
                 y == call'.b
                 a == v_registers[x]
                 b == v_registers[y]
             IN  /\ v_registers'[x] = (a - b + 256) % 256
                 /\ v_registers'[15] = (IF a > b THEN 1 ELSE 0) ]_vars

\* C9: with I, I+1 and I+2 in [0x200, 0x1000), store_bcd(x) writes the
\* hundreds, tens and ones digit of Vx at I, I+1 and I+2 and changes no
\* other memory byte and no register.
C9_StoreBcd ==
    [][ (call'.op = "store_bcd"
            /\ InWindow(i_register) /\ InWindow(i_register + 1)
            /\ InWindow(i_register + 2))
          => LET v == v_registers[call'.a]
             IN  /\ data' = [data EXCEPT ![i_register] = v \div 100,
                                         ![i_register + 1] = (v \div 10) % 10,
                                         ![i_register + 2] = v % 10]
                 /\ result' = Ok
                 /\ UNCHANGED cpu_vars ]_vars

\* 156 stored as 1, 5, 6 in the last three bytes of memory.
C9_Witness ==
    /\ call = Call("store_bcd", 1, 0)
    /\ v_registers[1] = 156
    /\ i_register = 4093
    /\ data[4093] = 1 /\ data[4094] = 5 /\ data[4095] = 6

\* C10: a tick of the 60Hz clock decrements each timer that is not 0 and
\* leaves a timer that is 0 at 0, and both timers stay in 0..255.
C10_TimerTick ==
    [][ /\ delay_timer' \in 0..255
        /\ sound_timer' \in 0..255
        /\ call'.op = "tick"
             => /\ delay_timer' = (IF delay_timer > 0 THEN delay_timer - 1 ELSE 0)
                /\ sound_timer' = (IF sound_timer > 0 THEN sound_timer - 1 ELSE 0)
      ]_vars

\* C11: drawing a sprite with a set bit twice in a row with the same I,
\* length and (Vx, Vy), the first time before anything else was drawn,
\* leaves VF = 0 after the first draw and VF = 1 after the second.  (The
\* display itself is no part of the machine state of the source.)
C11_DrawTwice ==
    [][ (call'.op = "draw" /\ result'.kind = "Ok"
            /\ \E i \in 0..(call'.b[2] - 1) : data[i_register + i] # 0)
          => v_registers'[15] = (IF call'.b[3] = 1 THEN 0 ELSE 1) ]_vars

\* C12: the fields handed to the handlers are x = bits 8-11, y = bits 4-7,
\* byte = low 8 bits, nibble = low 4 bits and addr = low 12 bits of the
\* opcode, and 6xkk writes kk to the register named by bits 8-11.
C12_Decode ==
    [][ call'.op = "execute"
          => LET w == call'.a
                 class == w \div 4096
             IN  /\ class \in {3, 4, 5, 6, 7, 8, 9, 12, 13, 14, 15}
                      => field_x(w) = (w \div 256) % 16
                 /\ class \in {5, 8, 9, 13}
                      => field_y(w) = (w \div 16) % 16
                 /\ field_byte(w) = w % 256
                 /\ field_nibble(w) = w % 16
                 /\ field_addr(w) = w % 4096
                 /\ class = 6
                      => v_registers' =
                            [v_registers EXCEPT ![(w \div 256) % 16] = w % 256]
      ]_vars

\* C13: in the state construction produces, the 16 registers, I, SP, the
\* stack and both timers are 0, the program counter is 0x200, memory
\* [0, 80) holds the glyphs and every other byte is 0.
C13_Constructed ==
    call.op = "new"
        => /\ \A r \in 0..15 : v_registers[r] = 0 /\ stack[r] = 0
           /\ i_register = 0
           /\ stack_pointer = 0
           /\ delay_timer = 0
           /\ sound_timer = 0
           /\ program_counter = 512
           /\ \A a \in 0..4095 :
                 data[a] = IF a < 80 THEN Font[(a \div 5) + 1][(a % 5) + 1] ELSE 0

\* C14: once Fx0A (wait for key) has been executed and until a key is
\* reported, no instruction step advances the program counter or changes a
\* register or a memory byte.  (The source has no operation that reports a
\* key, so none is ever reported.)
C14_WaitForKey ==
    [][ (call.op = "execute" /\ call.a \div 4096 = 15 /\ call.a % 256 = 10
            /\ call'.op = "execute")
          => UNCHANGED <<v_registers, i_register, program_counter,
                         stack_pointer, stack, data>> ]_vars

\* C15: after any sequence of instructions from the constructed state,
\* every memory byte below 0x200 still has its value at construction.
C15_ReservedIntact ==
    \A a \in 0..511 : data[a] = MemoryNew[a]

\* Fx33 executed with V3 = 3 and I = 0x1FE: the writes at 0x1FE and 0x1FF
\* were refused and the one at 0x200 stored the 3.
C15_Witness ==
    /\ call = Call("execute", 61747, 0)
    /\ i_register = 510
    /\ v_registers[3] = 3
    /\ data[512] = 3

\* C16: add_to_i_register(x) sets I to I + Vx and changes no memory byte
\* and no general register.
C16_AddToI ==
    [][ call'.op = "add_to_i_register"
          => /\ i_register' = i_register + v_registers[call'.a]
             /\ data' = data
             /\ v_registers' = v_registers ]_vars

\* The addresses I .. I + n - 1.
Span(n) == {i_register + k : k \in 0..(n - 1)}

\* An instruction about to make a memory access outside the window of its
\* kind: a write outside [0x200, 0x1000) (store_bcd, store_registers,
\* add_to_i_register) or a read outside [0, 0x1000) (load_registers, draw).
Offending(w) ==
    LET class == w \div 4096
        low == w % 256
    IN  \/ class = 15 /\ low = 51 /\ \E a \in Span(3) : ~InWindow(a)
        \/ class = 15 /\ low = 85 /\ \E a \in Span(field_x(w) + 1) : ~InWindow(a)
        \/ class = 15 /\ low = 30 /\ ~InWindow(i_register)
        \/ class = 15 /\ low = 101 /\ \E a \in Span(field_x(w) + 1) : a > 4095
        \/ class = 13 /\ \E a \in Span(w % 16) : a > 4095

\* C17: an instruction that makes a memory access outside the legal window
\* ends in an error surfaced to the caller, never as a successful step.
C17_OutOfBoundsSurfaced ==
    [][ (call'.op = "execute" /\ Offending(call'.a))
          => result'.kind \in {"Err", "InvalidAddress", "IndexOutOfBounds"} ]_vars

\* C18 as stated: in every state reachable by instruction steps the program
\* counter is even.
C18_PcEven == program_counter % 2 = 0

\* A jump or call whose target is odd: 1nnn or 2nnn with nnn odd, Bnnn with
\* nnn + V0 odd.
OddTarget(w) ==
    \/ w \div 4096 \in {1, 2} /\ (w % 4096) % 2 = 1
    \/ w \div 4096 = 11 /\ ((w % 4096) + v_registers[0]) % 2 = 1

\* C18 amended: the program counter is even at construction, and every
\* instruction step other than a jump or call to an odd target leaves an
\* even program counter even.
C18_PcEvenUnlessOddTarget ==
    /\ program_counter % 2 = 0
    /\ [][ (call'.op = "execute" /\ program_counter % 2 = 0
              /\ ~OddTarget(call'.a))
            => program_counter' % 2 = 0 ]_vars

\* A taken skip (3000 with V0 = 0) after a jump to 0x300.
C18_Witness ==
    /\ call = Call("execute", 12288, 0)
    /\ program_counter = 770

\* C19: a call leaves the stack pointer in 0..15 and stores the program
\* counter it found in the one slot the stack pointer then names, changing
\* no other slot; the 17th of 17 consecutive calls writes the slot of the
\* 1st, and the slots of calls 2..16 still hold what those calls saved.
C19_CallWraps ==
    [][ (call'.op = "execute" /\ call'.a \div 4096 = 2)
          => /\ stack_pointer' \in 0..15
             /\ stack' = [stack EXCEPT ![stack_pointer'] = program_counter]
             /\ Len(frames) = 16
                  => /\ stack_pointer' = frames[1][3]
                     /\ \A k \in 2..16 :
                           /\ frames[k][3] # stack_pointer'
                           /\ stack'[frames[k][3]] = frames[k][1] ]_vars

\* Seventeen calls open: slot 1, written by the first (PC 0), now holds the
\* PC of the seventeenth.
C19_Witness ==
    /\ Len(frames) = 17
    /\ call = Call("execute", 8960, 0)
    /\ stack_pointer = 1
    /\ frames[1] = <<0, 0, 1>>
    /\ stack[1] = 768

\* C20: an 8xy* instruction changes at most Vx (x = bits 8-11) and VF, and
\* 8xy0 .. 8xy3 change VF only when x is 15; I, SP, the stack, both timers
\* and memory are unchanged.
C20_LogicalFrame ==
    [][ (call'.op = "execute" /\ call'.a \div 4096 = 8 /\ result'.kind = "Ok")
          => LET w == call'.a
                 x == (w \div 256) % 16
             IN  /\ \A r \in 0..15 :
                       r \notin {x, 15} => v_registers'[r] = v_registers[r]
                 /\ (w % 16 \in 0..3 /\ x # 15)
                       => v_registers'[15] = v_registers[15]
                 /\ UNCHANGED <<i_register, stack_pointer, stack, delay_timer,
                                sound_timer, data>> ]_vars

====
